---- MODULE Spec2Model ----
(***************************************************************************)
(* Model of main_secure.py: the API-key middleware (AuthMiddleware), the   *)
(* sliding-window rate limiter (check_rate_limit), the four rate-limited   *)
(* tools and the start-up sequence (init_service, main).                   *)
(*                                                                         *)
(* Time is in seconds.  Optional strings (a header or a query parameter    *)
(* that may be missing, Python's None) are sequences of length <= 1:       *)
(* <<>> is None and <<s>> is the string s.                                 *)
(***************************************************************************)
EXTENDS Integers, Sequences, FiniteSets, TLC

VARIABLES
    REQUIRE_AUTH,        \* line 35, read once at import
    API_KEY,             \* line 34, read once at import
    RATE_LIMIT,          \* line 67, read once at import
    environ,             \* what start-up reads: argv[1], the config file, the environment
    mainPc,              \* where main() is
    service,             \* the module global `service`
    now,                 \* the clock datetime.now() reads
    rate_limit_storage,  \* line 66: identity -> list of timestamps
    requests,            \* the requests in flight, one record per slot
    servicePending,      \* slots whose call to the external service has been issued
    admissions,          \* observation: when the tools admitted in the last window passed
    trace,               \* observation: the check_rate_limit calls made directly
    lastDispatch         \* observation: the last dispatch() made directly

vars == <<REQUIRE_AUTH, API_KEY, RATE_LIMIT, environ, mainPc, service, now,
          rate_limit_storage, requests, servicePending, admissions, trace,
          lastDispatch>>

----------------------------------------------------------------------------
(* Bounds and input sets *)

MaxQuota == 2
MaxWindows == 1
MaxCalls == 4

RATE_LIMIT_WINDOW == 60

Quotas == 0..MaxQuota

\* The clock readings: around each multiple of the window.
Offsets == {0, 1, RATE_LIMIT_WINDOW - 1}
Instants == {k * RATE_LIMIT_WINDOW + o : k \in 0..MaxWindows, o \in Offsets}

ClientIds == {"default", "other"}
RequestIds == {"r1", "r2"}

None == <<>>
Some(s) == <<s>>

ApiKeys == {"", "secret1"}
Credentials == {None, Some(""), Some("secret1"), Some("wrong")}

HealthPath == "/health"
RootPath == "/"
McpPath == "/mcp"
Paths == {HealthPath, RootPath, McpPath}

Tools == {"get_account_balance", "get_open_positions", "get_open_orders",
          "market_open_position"}
NoArgs == <<>>
\* (symbol, side, size_in_dollars, leverage, reduce_only, slippage_tolerance)
OrderArgs == {<<"BTC", "buy", 100, None, FALSE, 5>>}
ArgsOf(tool) == IF tool = "market_open_position" THEN OrderArgs ELSE {NoArgs}

PrivateKeys == {None, Some("0xkey")}
\* A config file that does not exist holds no key.
Environs == {e \in [argv1 : {"stdio", "http"},
                    config_exists : BOOLEAN,
                    config_private_key : PrivateKeys,
                    env_private_key : PrivateKeys] :
               ~e.config_exists => e.config_private_key = None}

----------------------------------------------------------------------------
(* Python helpers *)

\* Truthiness of an optional string: None and "" are falsy.
Truthy(o) == o # None /\ o # Some("")

\* `a or b`
PyOr(a, b) == IF Truthy(a) THEN a ELSE b

\* defaultdict(list): reading a missing key gives [].
Log(st, client_id) == IF client_id \in DOMAIN st THEN st[client_id] ELSE <<>>

\* st[client_id] = v
Put(st, client_id, v) ==
    [k \in DOMAIN st \cup {client_id} |-> IF k = client_id THEN v ELSE st[k]]

EmptyStorage == [k \in {} |-> <<>>]

----------------------------------------------------------------------------
(* AuthMiddleware.dispatch, lines 38-53 *)

\* Fault: the health check is not exempted.
NoHealthBypass(path) == FALSE

\* line 40: the health check skips authentication
IsHealthCheck(path) == path = HealthPath

\* Fault: the secret is compared even when none is configured.
AuthEnforcedWithoutKey == REQUIRE_AUTH

\* line 44: `if REQUIRE_AUTH and API_KEY:`
AuthEnforced == REQUIRE_AUTH /\ API_KEY # ""

\* Fault: the query parameter is never read.
HeaderOnly(header, query) == header

\* line 45: `request.headers.get("X-API-Key") or request.query_params.get("api_key")`
SuppliedKey(header, query) == PyOr(header, query)

\* line 46: `api_key != API_KEY` is False
KeyMatches(api_key) == api_key = Some(API_KEY)

\* TRUE iff dispatch reaches call_next(request), FALSE iff it returns the 401.
Admits(path, header, query) ==
    IF IsHealthCheck(path) THEN TRUE
    ELSE IF AuthEnforced THEN KeyMatches(SuppliedKey(header, query))
    ELSE TRUE

Unauthorized == [error |-> "Unauthorized - Invalid API Key"]

----------------------------------------------------------------------------
(* check_rate_limit, lines 70-90 *)

\* Fault: the limiter ignores REQUIRE_AUTH.
LimiterAlwaysOn == FALSE

\* line 72: `if not REQUIRE_AUTH: return True`
LimiterDisabled == ~REQUIRE_AUTH

\* Fault: the window is taken one second short.
RecentShortWindow(log, t) ==
    LET minute_ago == t - (RATE_LIMIT_WINDOW - 1)
        Keep(req_time) == req_time > minute_ago
    IN  SelectSeq(log, Keep)

\* Fault: old requests are never cleaned.
RecentNoPrune(log, t) == log

\* Fault: a timestamp exactly one window old is kept.
RecentInclusive(log, t) ==
    LET Keep(req_time) == req_time >= t - RATE_LIMIT_WINDOW IN SelectSeq(log, Keep)

\* lines 76, 79-82: keep the timestamps newer than now - RATE_LIMIT_WINDOW
Recent(log, t) ==
    LET minute_ago == t - RATE_LIMIT_WINDOW
        Keep(req_time) == req_time > minute_ago
    IN  SelectSeq(log, Keep)

\* Fault: `>` for `>=`.
OverLimitStrict(log) == Len(log) > RATE_LIMIT

\* line 85: `len(rate_limit_storage[client_id]) >= RATE_LIMIT`
OverLimit(log) == Len(log) >= RATE_LIMIT

\* Fault: the request is recorded before the limit test.
RecordedAlways(log, t) == Append(log, t)

\* lines 85-90: the list after the limit test
Recorded(log, t) == IF OverLimit(log) THEN log ELSE Append(log, t)

\* The value check_rate_limit(client_id) returns at time t with storage st.
check_rate_limit(st, client_id, t) ==
    IF LimiterDisabled THEN TRUE
    ELSE ~OverLimit(Recent(Log(st, client_id), t))

\* rate_limit_storage after check_rate_limit(client_id) at time t.
StorageAfterCheck(st, client_id, t) ==
    IF LimiterDisabled THEN st
    ELSE Put(st, client_id, Recorded(Recent(Log(st, client_id), t), t))

RateLimitExceeded == [error |-> "Rate limit exceeded"]

----------------------------------------------------------------------------
(* State *)

IdleRequest ==
    [pc |-> "idle", authed |-> FALSE, tool |-> "", args |-> NoArgs,
     rate_ok |-> <<>>, status_code |-> 0, content |-> [none |-> TRUE]]

\* Module import (lines 34, 35, 66, 67, 119) and the process's surroundings.
Init ==
    /\ REQUIRE_AUTH \in BOOLEAN
    /\ API_KEY \in ApiKeys
    /\ RATE_LIMIT \in Quotas
    /\ environ \in Environs
    /\ mainPc = "start"
    /\ service = None
    /\ now = 0
    /\ rate_limit_storage = EmptyStorage
    /\ requests = [r \in RequestIds |-> IdleRequest]
    /\ servicePending = {}
    /\ admissions = <<>>
    /\ trace = <<>>
    /\ lastDispatch = <<>>

\* The entries of `ts` in the trailing window (t - RATE_LIMIT_WINDOW, t].
StillInWindow(ts, t) ==
    LET In(x) == x > t - RATE_LIMIT_WINDOW /\ x <= t IN SelectSeq(ts, In)

\* A tool passed the rate check at t.  Nothing is observed while the limiter
\* is switched off: there is no quota then.
Admitted(ts, t) == IF REQUIRE_AUTH THEN Append(ts, t) ELSE ts

\* The clock moves on to a later reading.
Tick ==
    /\ \E t \in Instants : t > now /\ now' = t
    /\ admissions' = StillInWindow(admissions, now')
    /\ UNCHANGED <<REQUIRE_AUTH, API_KEY, RATE_LIMIT, environ, mainPc, service,
                   rate_limit_storage, requests, servicePending, trace, lastDispatch>>

----------------------------------------------------------------------------
(* Start-up: init_service (lines 93-116) and main (lines 197-240) *)

\* Fault: the environment is consulted when the config file holds no key.
ConfigThenEnviron ==
    IF environ.config_exists /\ Truthy(environ.config_private_key)
    THEN environ.config_private_key
    ELSE environ.env_private_key

\* lines 96-107: the config file, when there is one, else the environment
ConfiguredPrivateKey ==
    IF environ.config_exists THEN environ.config_private_key
    ELSE environ.env_private_key

\* lines 109-110: `if not private_key: raise ValueError(...)`
InitServiceRaises == ~Truthy(ConfiguredPrivateKey)

\* line 207: `len(sys.argv) > 1 and sys.argv[1] == "stdio"`
StdioMode == environ.argv1 = "stdio"

Main ==
    /\ mainPc = "start"
    /\ IF InitServiceRaises
       THEN \* lines 238-240: logged and re-raised, asyncio.run ends the process
            /\ mainPc' = "failed"
            /\ service' = service
       ELSE /\ service' = Some("HyperLiquidService")
            /\ mainPc' = IF StdioMode THEN "stdio" ELSE "http"
    /\ UNCHANGED <<REQUIRE_AUTH, API_KEY, RATE_LIMIT, environ, now,
                   rate_limit_storage, requests, servicePending, admissions, trace, lastDispatch>>

----------------------------------------------------------------------------
(* Requests *)

HealthBody == [status |-> "ok", service |-> "hyperliquid-mcp"]
RootBody == [name |-> "HyperLiquid MCP Server", version |-> "1.0.0"]

\* Fault: the middleware is not installed; every request goes to its route.
HttpRequestUnguarded(r, path, header, query) ==
    /\ mainPc = "http"
    /\ requests[r].pc = "idle"
    /\ requests' = [requests EXCEPT ![r] =
         IF path = HealthPath
         THEN [IdleRequest EXCEPT !.pc = "done", !.status_code = 200,
                                  !.content = HealthBody]
         ELSE IF path = RootPath
         THEN [IdleRequest EXCEPT !.pc = "done", !.status_code = 200,
                                  !.content = RootBody]
         ELSE [IdleRequest EXCEPT !.pc = "routed"]]
    /\ UNCHANGED <<REQUIRE_AUTH, API_KEY, RATE_LIMIT, environ, mainPc, service, now,
                   rate_limit_storage, servicePending, admissions, trace, lastDispatch>>

\* Fault: the 401 is built but not returned; the request goes on to its route.
HttpRequestFallsThrough(r, path, header, query) ==
    /\ mainPc = "http"
    /\ requests[r].pc = "idle"
    /\ requests' = [requests EXCEPT ![r] =
         IF path = HealthPath
         THEN [IdleRequest EXCEPT !.pc = "done", !.authed = Admits(path, header, query),
                                  !.status_code = 200, !.content = HealthBody]
         ELSE IF path = RootPath
         THEN [IdleRequest EXCEPT !.pc = "done", !.authed = Admits(path, header, query),
                                  !.status_code = 200, !.content = RootBody]
         ELSE [IdleRequest EXCEPT !.pc = "routed",
                                  !.authed = Admits(path, header, query)]]
    /\ UNCHANGED <<REQUIRE_AUTH, API_KEY, RATE_LIMIT, environ, mainPc, service, now,
                   rate_limit_storage, servicePending, admissions, trace, lastDispatch>>

\* The HTTP server hands a request to AuthMiddleware.dispatch (line 225), which
\* answers 401 or passes it on to the route: /health and / answer at once,
\* /mcp leads to a tool.
HttpRequest(r, path, header, query) ==
    /\ mainPc = "http"
    /\ requests[r].pc = "idle"
    /\ requests' = [requests EXCEPT ![r] =
         IF ~Admits(path, header, query)
         THEN [IdleRequest EXCEPT !.pc = "done", !.status_code = 401,
                                  !.content = Unauthorized]
         ELSE IF path = HealthPath
         THEN [IdleRequest EXCEPT !.pc = "done", !.authed = TRUE,
                                  !.status_code = 200, !.content = HealthBody]
         ELSE IF path = RootPath
         THEN [IdleRequest EXCEPT !.pc = "done", !.authed = TRUE,
                                  !.status_code = 200, !.content = RootBody]
         ELSE [IdleRequest EXCEPT !.pc = "routed", !.authed = TRUE]]
    /\ UNCHANGED <<REQUIRE_AUTH, API_KEY, RATE_LIMIT, environ, mainPc, service, now,
                   rate_limit_storage, servicePending, admissions, trace, lastDispatch>>

\* lines 207-210: in stdio mode Server(mcp).run() serves tool calls read from
\* standard input; no middleware is installed.
StdioRequest(r) ==
    /\ mainPc = "stdio"
    /\ requests[r].pc = "idle"
    /\ requests' = [requests EXCEPT ![r] = [IdleRequest EXCEPT !.pc = "routed"]]
    /\ UNCHANGED <<REQUIRE_AUTH, API_KEY, RATE_LIMIT, environ, mainPc, service, now,
                   rate_limit_storage, servicePending, admissions, trace, lastDispatch>>

\* Fault: the append of an invocation that overlaps another one is lost.
ToolCallLostUpdate(r, tool, args) ==
    /\ requests[r].pc = "routed"
    /\ LET ok == check_rate_limit(rate_limit_storage, "default", now) IN
       /\ rate_limit_storage' = IF servicePending # {} THEN rate_limit_storage
                                 ELSE StorageAfterCheck(rate_limit_storage, "default", now)
       /\ IF ~ok
          THEN /\ requests' = [requests EXCEPT ![r] =
                     [@ EXCEPT !.pc = "done",
                               !.rate_ok = <<FALSE>>, !.status_code = 200,
                               !.content = RateLimitExceeded]]
               /\ servicePending' = servicePending
               /\ admissions' = admissions
          ELSE /\ requests' = [requests EXCEPT ![r] =
                     [@ EXCEPT !.pc = "awaiting", !.tool = tool, !.args = args,
                               !.rate_ok = <<TRUE>>]]
               /\ servicePending' = servicePending \cup
                                       {[req |-> r, op |-> tool, args |-> args]}
               /\ admissions' = Admitted(admissions, now)
    /\ UNCHANGED <<REQUIRE_AUTH, API_KEY, RATE_LIMIT, environ, mainPc, service, now,
                   trace, lastDispatch>>

\* Fault: each caller is limited under its own identity.
ToolCallPerCaller(r, tool, args) ==
    /\ requests[r].pc = "routed"
    /\ LET ok == check_rate_limit(rate_limit_storage, r, now) IN
       /\ rate_limit_storage' = StorageAfterCheck(rate_limit_storage, r, now)
       /\ IF ~ok
          THEN /\ requests' = [requests EXCEPT ![r] =
                     [@ EXCEPT !.pc = "done",
                               !.rate_ok = <<FALSE>>, !.status_code = 200,
                               !.content = RateLimitExceeded]]
               /\ servicePending' = servicePending
               /\ admissions' = admissions
          ELSE /\ requests' = [requests EXCEPT ![r] =
                     [@ EXCEPT !.pc = "awaiting", !.tool = tool, !.args = args,
                               !.rate_ok = <<TRUE>>]]
               /\ servicePending' = servicePending \cup
                                       {[req |-> r, op |-> tool, args |-> args]}
               /\ admissions' = Admitted(admissions, now)
    /\ UNCHANGED <<REQUIRE_AUTH, API_KEY, RATE_LIMIT, environ, mainPc, service, now,
                   trace, lastDispatch>>

\* Fault: the tool does not forward its arguments.
ToolCallDropsArgs(r, tool, args) ==
    /\ requests[r].pc = "routed"
    /\ LET ok == check_rate_limit(rate_limit_storage, "default", now) IN
       /\ rate_limit_storage' = StorageAfterCheck(rate_limit_storage, "default", now)
       /\ IF ~ok
          THEN /\ requests' = [requests EXCEPT ![r] =
                     [@ EXCEPT !.pc = "done",
                               !.rate_ok = <<FALSE>>, !.status_code = 200,
                               !.content = RateLimitExceeded]]
               /\ servicePending' = servicePending
               /\ admissions' = admissions
          ELSE /\ requests' = [requests EXCEPT ![r] =
                     [@ EXCEPT !.pc = "awaiting", !.tool = tool, !.args = args,
                               !.rate_ok = <<TRUE>>]]
               /\ servicePending' = servicePending \cup
                                       {[req |-> r, op |-> tool, args |-> NoArgs]}
               /\ admissions' = Admitted(admissions, now)
    /\ UNCHANGED <<REQUIRE_AUTH, API_KEY, RATE_LIMIT, environ, mainPc, service, now,
                   trace, lastDispatch>>

\* Fault: the tool goes on to the service after a failed rate check.
ToolCallUnchecked(r, tool, args) ==
    /\ requests[r].pc = "routed"
    /\ LET ok == check_rate_limit(rate_limit_storage, "default", now) IN
       /\ rate_limit_storage' = StorageAfterCheck(rate_limit_storage, "default", now)
       /\ requests' = [requests EXCEPT ![r] =
             [@ EXCEPT !.pc = "awaiting", !.tool = tool, !.args = args,
                       !.rate_ok = <<ok>>]]
       /\ servicePending' = servicePending \cup
                               {[req |-> r, op |-> tool, args |-> args]}
       /\ admissions' = Admitted(admissions, now)
    /\ UNCHANGED <<REQUIRE_AUTH, API_KEY, RATE_LIMIT, environ, mainPc, service, now,
                   trace, lastDispatch>>

\* lines 121-166: a tool body up to its await.  The rate check and, when it
\* passes, the start of the service call are one step: nothing suspends between.
ToolCall(r, tool, args) ==
    /\ requests[r].pc = "routed"
    /\ LET ok == check_rate_limit(rate_limit_storage, "default", now) IN
       /\ rate_limit_storage' = StorageAfterCheck(rate_limit_storage, "default", now)
       /\ IF ~ok
          THEN /\ requests' = [requests EXCEPT ![r] =
                     [@ EXCEPT !.pc = "done",
                               !.rate_ok = <<FALSE>>, !.status_code = 200,
                               !.content = RateLimitExceeded]]
               /\ servicePending' = servicePending
               /\ admissions' = admissions
          ELSE /\ requests' = [requests EXCEPT ![r] =
                     [@ EXCEPT !.pc = "awaiting", !.tool = tool, !.args = args,
                               !.rate_ok = <<TRUE>>]]
               /\ servicePending' = servicePending \cup
                                       {[req |-> r, op |-> tool, args |-> args]}
               /\ admissions' = Admitted(admissions, now)
    /\ UNCHANGED <<REQUIRE_AUTH, API_KEY, RATE_LIMIT, environ, mainPc, service, now,
                   trace, lastDispatch>>

ServiceResults == {[result |-> "ok"]}
ServiceErrors == {[exception |-> "ServiceError"]}

\* The awaited service call returns, and the tool returns what it returned.
\* A finished tool keeps no locals: the slot holds the response alone.
ServiceReturn(r, result) ==
    /\ requests[r].pc = "awaiting"
    /\ \E c \in servicePending :
         /\ c.req = r
         /\ servicePending' = servicePending \ {c}
    /\ requests' = [requests EXCEPT ![r] =
         [@ EXCEPT !.pc = "done", !.tool = "", !.args = NoArgs,
                   !.status_code = 200, !.content = result]]
    /\ UNCHANGED <<REQUIRE_AUTH, API_KEY, RATE_LIMIT, environ, mainPc, service, now,
                   rate_limit_storage, admissions, trace, lastDispatch>>

\* Fault: a failed service call gives its quota slot back.
ServiceRaiseRefunds(r, error) ==
    /\ requests[r].pc = "awaiting"
    /\ \E c \in servicePending :
         /\ c.req = r
         /\ servicePending' = servicePending \ {c}
    /\ requests' = [requests EXCEPT ![r] =
         [@ EXCEPT !.pc = "done", !.tool = "", !.args = NoArgs,
                   !.status_code = 500, !.content = error]]
    /\ rate_limit_storage' =
          LET log == Log(rate_limit_storage, "default") IN
          IF log = <<>> THEN rate_limit_storage
          ELSE Put(rate_limit_storage, "default", SubSeq(log, 1, Len(log) - 1))
    /\ UNCHANGED <<REQUIRE_AUTH, API_KEY, RATE_LIMIT, environ, mainPc, service, now,
                   admissions, trace, lastDispatch>>

\* The awaited service call raises, and the exception leaves the tool.
ServiceRaise(r, error) ==
    /\ requests[r].pc = "awaiting"
    /\ \E c \in servicePending :
         /\ c.req = r
         /\ servicePending' = servicePending \ {c}
    /\ requests' = [requests EXCEPT ![r] =
         [@ EXCEPT !.pc = "done", !.tool = "", !.args = NoArgs,
                   !.status_code = 500, !.content = error]]
    /\ UNCHANGED <<REQUIRE_AUTH, API_KEY, RATE_LIMIT, environ, mainPc, service, now,
                   rate_limit_storage, admissions, trace, lastDispatch>>

\* The response has been sent; the slot is free again.
Respond(r) ==
    /\ requests[r].pc = "done"
    /\ requests' = [requests EXCEPT ![r] = IdleRequest]
    /\ UNCHANGED <<REQUIRE_AUTH, API_KEY, RATE_LIMIT, environ, mainPc, service, now,
                   rate_limit_storage, servicePending, admissions, trace, lastDispatch>>

Next ==
    \/ Main
    \/ Tick
    \/ \E r \in RequestIds, path \in Paths, header \in Credentials, query \in Credentials :
         HttpRequest(r, path, header, query)
    \/ \E r \in RequestIds : StdioRequest(r)
    \/ \E r \in RequestIds, tool \in Tools : \E args \in ArgsOf(tool) :
         ToolCall(r, tool, args)
    \/ \E r \in RequestIds, result \in ServiceResults : ServiceReturn(r, result)
    \/ \E r \in RequestIds, error \in ServiceErrors : ServiceRaise(r, error)
    \/ \E r \in RequestIds : Respond(r)

Spec == Init /\ [][Next]_vars

----------------------------------------------------------------------------
(* check_rate_limit on its own: any identity, any clock reading.  Every call *)
(* is written to `trace`.                                                   *)

ServingEnviron ==
    [argv1 |-> "http", config_exists |-> FALSE,
     config_private_key |-> None, env_private_key |-> Some("0xkey")]

LimiterInit == Init /\ API_KEY = "secret1" /\ environ = ServingEnviron

CheckCall(client_id) ==
    /\ Len(trace) < MaxCalls
    /\ trace' = Append(trace,
                       [id |-> client_id, t |-> now,
                        ok |-> check_rate_limit(rate_limit_storage, client_id, now)])
    /\ rate_limit_storage' = StorageAfterCheck(rate_limit_storage, client_id, now)
    /\ UNCHANGED <<REQUIRE_AUTH, API_KEY, RATE_LIMIT, environ, mainPc, service, now,
                   requests, servicePending, lastDispatch, admissions>>

LimiterNext ==
    \/ Tick
    \/ \E client_id \in ClientIds : CheckCall(client_id)

LimiterSpec == LimiterInit /\ [][LimiterNext]_vars

(* A client that keeps retrying: check_rate_limit("default"), as the tools  *)
(* call it, called without end at a clock that keeps advancing while it     *)
(* can.  Here `trace` remembers only the most recent calls.                 *)
MaxRemembered == 3

LastCalls(calls, call) ==
    IF Len(calls) < MaxRemembered THEN Append(calls, call)
    ELSE Append(Tail(calls), call)

Retry(client_id) ==
    /\ trace' = LastCalls(trace,
                          [id |-> client_id, t |-> now,
                           ok |-> check_rate_limit(rate_limit_storage, client_id, now)])
    /\ rate_limit_storage' = StorageAfterCheck(rate_limit_storage, client_id, now)
    /\ UNCHANGED <<REQUIRE_AUTH, API_KEY, RATE_LIMIT, environ, mainPc, service, now,
                   requests, servicePending, lastDispatch, admissions>>

RetryNext ==
    \/ Tick
    \/ Retry("default")

RetrySpec ==
    /\ LimiterInit
    /\ [][RetryNext]_vars
    /\ WF_vars(Tick)
    /\ WF_vars(Retry("default"))

----------------------------------------------------------------------------
(* AuthMiddleware.dispatch on its own: any path, header and query parameter. *)
(* The request and the outcome are written to `lastDispatch`.                *)

AuthInit == Init /\ RATE_LIMIT = 0 /\ environ = ServingEnviron

Dispatch(path, header, query) ==
    /\ lastDispatch' =
         <<[path |-> path, header |-> header, query |-> query,
            called_next |-> Admits(path, header, query),
            status_code |-> IF Admits(path, header, query) THEN 200 ELSE 401]>>
    /\ UNCHANGED <<REQUIRE_AUTH, API_KEY, RATE_LIMIT, environ, mainPc, service, now,
                   rate_limit_storage, requests, servicePending, admissions, trace>>

AuthNext ==
    \E path \in Paths, header \in Credentials, query \in Credentials :
        Dispatch(path, header, query)

AuthSpec == AuthInit /\ [][AuthNext]_vars

----------------------------------------------------------------------------
(* Reading the trace *)

LastInstant == (MaxWindows + 1) * RATE_LIMIT_WINDOW

\* The calls of one identity, in order.
CallsOf(client_id) ==
    LET Mine(c) == c.id = client_id IN SelectSeq(trace, Mine)

\* The timestamps of the admitted ones among calls 1..n of `calls`.
AdmittedTimes(calls, n) ==
    LET T[i \in 0..Len(calls)] ==
            IF i = 0 THEN <<>>
            ELSE IF calls[i].ok THEN Append(T[i - 1], calls[i].t) ELSE T[i - 1]
    IN  T[n]

\* How many of the timestamps `ts` lie in the trailing window (t - W, t].
InWindow(ts, t) ==
    Cardinality({i \in 1..Len(ts) : ts[i] > t - RATE_LIMIT_WINDOW /\ ts[i] <= t})

\* The step is a call of check_rate_limit(client_id).
IsCallOf(client_id) ==
    /\ Len(trace') = Len(trace) + 1
    /\ trace'[Len(trace')].id = client_id

----------------------------------------------------------------------------
(* C1: with enforcement on and a clock that never runs backwards, the calls *)
(* of one identity that were admitted with a timestamp in a trailing window *)
(* (t - RATE_LIMIT_WINDOW, t] number at most RATE_LIMIT, for every identity *)
(* and every t.                                                             *)
C1_WindowQuota ==
    REQUIRE_AUTH =>
        \A client_id \in ClientIds :
            LET calls == CallsOf(client_id)
                ts == AdmittedTimes(calls, Len(calls))
            IN  \/ Len(ts) <= RATE_LIMIT   \* too few admitted for any window
                \/ \A t \in 0..LastInstant : InWindow(ts, t) <= RATE_LIMIT

\* The quota was reached in the window ending now, a call was turned away, and
\* over the whole run more than RATE_LIMIT calls got through.
C1_Witness ==
    /\ REQUIRE_AUTH
    /\ RATE_LIMIT >= 1
    /\ \E client_id \in ClientIds :
         LET calls == CallsOf(client_id)
             ts == AdmittedTimes(calls, Len(calls))
         IN  /\ InWindow(ts, now) = RATE_LIMIT
             /\ Len(ts) > RATE_LIMIT
             /\ \E i \in 1..Len(calls) : ~calls[i].ok

(* C2: with enforcement on and quota Q >= 1, a call made while Q earlier     *)
(* admitted calls of the same identity lie less than W seconds back is      *)
(* rejected; and a call made more than W seconds after the earliest of the  *)
(* last Q admitted calls, which lay within a span shorter than W, is        *)
(* admitted.                                                                *)
C2_RejectThenReadmit ==
    REQUIRE_AUTH =>
        \A client_id \in ClientIds :
            LET calls == CallsOf(client_id) IN
            \A k \in 1..Len(calls) :
                LET ts == AdmittedTimes(calls, k - 1)
                    n == Len(ts)
                    Q == RATE_LIMIT
                IN  /\ (n >= Q /\ InWindow(ts, calls[k].t) >= Q) => ~calls[k].ok
                    /\ ( /\ Q >= 1
                         /\ n >= Q
                         /\ ts[n] - ts[n - Q + 1] < RATE_LIMIT_WINDOW
                         /\ calls[k].t > ts[n - Q + 1] + RATE_LIMIT_WINDOW )
                       => calls[k].ok

\* Scenario C then D: two admitted, the third rejected in the same span, the
\* fourth admitted once the window has passed the first.
C2_Witness ==
    /\ REQUIRE_AUTH
    /\ RATE_LIMIT = 2
    /\ \E client_id \in ClientIds :
         LET calls == CallsOf(client_id) IN
         /\ Len(calls) = 4
         /\ calls[1].ok /\ calls[2].ok /\ ~calls[3].ok /\ calls[4].ok
         /\ calls[3].t - calls[1].t < RATE_LIMIT_WINDOW
         /\ calls[4].t = calls[1].t + RATE_LIMIT_WINDOW + 1

(* C7: a call of check_rate_limit that returns False leaves the timestamp   *)
(* sequence of its identity as it was.                                      *)
C7_RejectionKeepsLog ==
    [][\A client_id \in ClientIds :
          (IsCallOf(client_id) /\ ~trace'[Len(trace')].ok)
              => Log(rate_limit_storage', client_id) = Log(rate_limit_storage, client_id)]_vars

\* Two rejections of one identity at different times, its log still holding
\* the admitted timestamps.
C7_Witness ==
    /\ RATE_LIMIT >= 1
    /\ \E client_id \in ClientIds :
         LET calls == CallsOf(client_id)
             n == Len(calls)
         IN  /\ n >= 3
             /\ ~calls[n].ok /\ ~calls[n - 1].ok
             /\ calls[n].t > calls[n - 1].t
             /\ Len(Log(rate_limit_storage, client_id)) = RATE_LIMIT

(* C8: right after a call of check_rate_limit the log of its identity holds *)
(* only timestamps in [now - RATE_LIMIT_WINDOW, now], and right after an    *)
(* admitted call it holds at most RATE_LIMIT timestamps.                    *)
C8_LogAfterCheck ==
    [][\A client_id \in ClientIds :
          IsCallOf(client_id) =>
              LET log == Log(rate_limit_storage', client_id) IN
              /\ \A i \in 1..Len(log) :
                     log[i] >= now' - RATE_LIMIT_WINDOW /\ log[i] <= now'
              /\ trace'[Len(trace')].ok => Len(log) <= RATE_LIMIT]_vars

\* An admitted call has just filled the log to the quota, after an older
\* timestamp of the same identity was dropped.
C8_Witness ==
    /\ REQUIRE_AUTH
    /\ trace # <<>>
    /\ LET last == trace[Len(trace)]
           calls == CallsOf(last.id)
           log == Log(rate_limit_storage, last.id)
       IN  /\ last.ok /\ last.t = now
           /\ Len(log) = RATE_LIMIT
           /\ Len(AdmittedTimes(calls, Len(calls))) > Len(log)

----------------------------------------------------------------------------
(* Reading the last dispatch *)

Dispatched == lastDispatch # <<>>
Req == lastDispatch[1]

\* The credential a request supplies: the X-API-Key header, or the api_key
\* query parameter when the header is missing or empty.
Credential(d) == IF d.header \in {None, Some("")} THEN d.query ELSE d.header

(* C3, as claimed: with REQUIRE_AUTH true, a request to a path other than   *)
(* /health is admitted if and only if its credential equals API_KEY,        *)
(* whatever API_KEY is.                                                     *)
C3_AdmitIffKey_AnySecret ==
    (Dispatched /\ REQUIRE_AUTH /\ Req.path # HealthPath)
        => (Req.called_next <=> Credential(Req) = Some(API_KEY))

(* C4: a request to /health is admitted whatever its credential, whatever   *)
(* REQUIRE_AUTH and API_KEY are.                                            *)
C4_HealthAlwaysAdmitted ==
    (Dispatched /\ Req.path = HealthPath) => Req.called_next

\* /health passed on with a wrong key while the secret is enforced.
C4_Witness ==
    /\ Dispatched /\ REQUIRE_AUTH /\ API_KEY = "secret1"
    /\ Req.path = HealthPath
    /\ Req.header = Some("wrong") /\ Req.query = Some("wrong")
    /\ Req.called_next

(* C9, as claimed: with REQUIRE_AUTH true and a non-empty API_KEY, a        *)
(* request is admitted whenever its header or its query parameter equals    *)
(* API_KEY, whatever the other one carries.                                 *)
C9_EitherCarrierAdmits ==
    (Dispatched /\ REQUIRE_AUTH /\ API_KEY # ""
       /\ (Req.header = Some(API_KEY) \/ Req.query = Some(API_KEY)))
        => Req.called_next

(* C9, amended: with REQUIRE_AUTH true and a non-empty API_KEY, a request   *)
(* is admitted when its header equals API_KEY, whatever the query parameter *)
(* carries, and when its header is missing or empty and its query parameter *)
(* equals API_KEY; a request off /health whose header carries another       *)
(* non-empty value is answered 401 even when the query parameter equals     *)
(* API_KEY.                                                                 *)
C9_HeaderThenQuery ==
    (Dispatched /\ REQUIRE_AUTH /\ API_KEY # "")
        => /\ Req.header = Some(API_KEY) => Req.called_next
           /\ (Req.header \in {None, Some("")} /\ Req.query = Some(API_KEY))
                 => Req.called_next
           /\ ( /\ Req.path # HealthPath
                /\ Req.header \notin {None, Some(""), Some(API_KEY)} )
                 => ~Req.called_next /\ Req.status_code = 401

\* The key accepted from the query parameter under an empty header.
C9_Witness ==
    /\ Dispatched /\ REQUIRE_AUTH /\ API_KEY = "secret1"
    /\ Req.path = McpPath
    /\ Req.header = Some("") /\ Req.query = Some("secret1")
    /\ Req.called_next

----------------------------------------------------------------------------
(* Reading the request slots *)

\* The tool body of r has run: it has consulted the rate limiter.
ToolRan(r) == requests[r].rate_ok # <<>>

\* The step runs the tool body of r.
IsToolStep(r) == requests[r].pc = "routed" /\ requests'[r].pc # "routed"

(* C5: with REQUIRE_AUTH false no request is answered 401 whatever its      *)
(* credential, no tool is turned away by the rate limiter, and              *)
(* rate_limit_storage stays as it was at start-up: no timestamp, no key.    *)
C5_DisabledAdmitsAll ==
    ~REQUIRE_AUTH =>
        /\ \A r \in RequestIds :
              requests[r].status_code # 401 /\ requests[r].rate_ok # <<FALSE>>
        /\ rate_limit_storage = EmptyStorage

\* Two tools running at once under a quota of zero and a configured secret.
C5_Witness ==
    /\ ~REQUIRE_AUTH /\ API_KEY = "secret1" /\ RATE_LIMIT = 0
    /\ mainPc = "http"
    /\ \A r \in RequestIds :
          requests[r].pc = "awaiting" /\ requests[r].rate_ok = <<TRUE>>
    /\ rate_limit_storage = EmptyStorage

(* C6: a tool whose call of check_rate_limit returns False answers          *)
(* {"error": "Rate limit exceeded"} and issues no call to the service; a    *)
(* call to the service is issued only by a tool step whose own call of      *)
(* check_rate_limit returned True.                                          *)
C6_RejectedToolSkipsService ==
    [][LET admitted == check_rate_limit(rate_limit_storage, "default", now) IN
       /\ \A r \in RequestIds :
             (IsToolStep(r) /\ ~admitted) =>
                 /\ requests'[r].pc = "done"
                 /\ requests'[r].content = RateLimitExceeded
                 /\ servicePending' = servicePending
       /\ \A c \in servicePending' \ servicePending :
             /\ IsToolStep(c.req)
             /\ admitted
             /\ c.op \in Tools]_vars

\* One tool turned away with the error payload while the call that used up
\* the quota is still with the service.
C6_Witness ==
    /\ REQUIRE_AUTH /\ RATE_LIMIT = 1
    /\ \E r1, r2 \in RequestIds :
         /\ requests[r1].pc = "done"
         /\ requests[r1].rate_ok = <<FALSE>>
         /\ requests[r1].content = RateLimitExceeded
         /\ requests[r2].pc = "awaiting"
         /\ servicePending = {[req |-> r2, op |-> requests[r2].tool,
                               args |-> requests[r2].args]}

(* C10, as claimed: in every process mode, a request whose tool body has    *)
(* run was admitted by AuthMiddleware before.                               *)
C10_AuthBeforeTool_EveryMode ==
    \A r \in RequestIds : ToolRan(r) => requests[r].authed

(* C10, amended: in HTTP server mode a request that has reached a tool was  *)
(* admitted by AuthMiddleware before; in stdio mode no AuthMiddleware is    *)
(* installed, and tool bodies run for requests that never passed one.       *)
C10_AuthBeforeTool_Http ==
    /\ mainPc = "http" =>
          \A r \in RequestIds :
              (requests[r].pc \in {"routed", "awaiting"} \/ ToolRan(r))
                  => requests[r].authed
    /\ mainPc = "stdio" => \A r \in RequestIds : ~requests[r].authed
    /\ mainPc \notin {"http", "stdio"} =>
          \A r \in RequestIds : requests[r] = IdleRequest

\* Under an enforced secret one request has reached the service and another
\* was answered 401.
C10_Witness ==
    /\ mainPc = "http" /\ REQUIRE_AUTH /\ API_KEY = "secret1"
    /\ \E r1, r2 \in RequestIds :
         /\ requests[r1].pc = "awaiting" /\ requests[r1].authed
         /\ requests[r2].status_code = 401 /\ ~requests[r2].authed

----------------------------------------------------------------------------
(* C11: a request AuthMiddleware rejects is answered 401 with the error     *)
(* body {"error": "Unauthorized - Invalid API Key"} in the step that        *)
(* receives it, a step that records no timestamp and issues no service      *)
(* call; call_next is never invoked for it, so the request reaches no route *)
(* and no tool and can only be sent back.                                   *)
C11_RejectedRequestDropped ==
    [][\A r \in RequestIds :
          /\ (mainPc = "http" /\ requests[r].pc = "idle" /\ requests'[r].pc # "idle"
                /\ ~requests'[r].authed)
                => /\ requests'[r] = [IdleRequest EXCEPT !.pc = "done",
                                                         !.status_code = 401,
                                                         !.content = Unauthorized]
                   /\ rate_limit_storage' = rate_limit_storage
                   /\ servicePending' = servicePending
          /\ (mainPc = "http" /\ requests[r].pc # "idle" /\ ~requests[r].authed)
                => /\ requests'[r] \in {requests[r], IdleRequest}
                   /\ \A c \in servicePending' : c.req # r]_vars

\* A request answered 401 while the only timestamp and the only service call
\* are those of the other request.
C11_Witness ==
    /\ mainPc = "http" /\ REQUIRE_AUTH /\ API_KEY = "secret1"
    /\ \E r1, r2 \in RequestIds :
         /\ requests[r1].status_code = 401
         /\ requests[r1].content = Unauthorized
         /\ requests[r1].rate_ok = <<>>
         /\ requests[r2].pc = "awaiting"
         /\ Len(Log(rate_limit_storage, "default")) = 1
         /\ \A c \in servicePending : c.req = r2

(* C12: when the config file exists and holds no private key, or does not   *)
(* exist while the environment holds none, main never reaches a serving     *)
(* state; and in any case no request is received, no tool runs and no       *)
(* service call is issued before init_service has returned the service.     *)
NoPrivateKeyConfigured ==
    \/ environ.config_exists /\ environ.config_private_key \in {None, Some("")}
    \/ ~environ.config_exists /\ environ.env_private_key \in {None, Some("")}

C12_NoKeyNoServing ==
    /\ NoPrivateKeyConfigured =>
          /\ mainPc \in {"start", "failed"}
          /\ service = None
    /\ service = None =>
          /\ mainPc \in {"start", "failed"}
          /\ \A r \in RequestIds : requests[r] = IdleRequest
          /\ servicePending = {}
          /\ rate_limit_storage = EmptyStorage

\* Start-up has failed over a config file without a key, although the
\* environment holds one.
C12_Witness ==
    /\ mainPc = "failed"
    /\ service = None
    /\ environ.config_exists
    /\ environ.config_private_key = None
    /\ environ.env_private_key = Some("0xkey")

----------------------------------------------------------------------------
\* The service calls issued for request r and still pending.
PendingOf(pending, r) == {c \in pending : c.req = r}

(* C13: a tool that passes the rate check issues exactly one call to the    *)
(* service, for the operation of its own name and with the arguments it was *)
(* called with; when that call ends the tool ends with what the service     *)
(* returned or raised, and no further call is issued for the request.       *)
C13_ForwardedVerbatim ==
    [][\A r \in RequestIds :
          /\ (IsToolStep(r) /\ check_rate_limit(rate_limit_storage, "default", now))
                => /\ requests'[r].tool \in Tools
                   /\ requests'[r].args \in ArgsOf(requests'[r].tool)
                   /\ servicePending' = servicePending \cup
                          {[req |-> r, op |-> requests'[r].tool,
                            args |-> requests'[r].args]}
                   /\ Cardinality(PendingOf(servicePending', r)) = 1
          /\ (requests[r].pc = "awaiting" /\ requests'[r].pc # "awaiting")
                => /\ requests'[r].pc = "done"
                   /\ \/ requests'[r].status_code = 200
                         /\ requests'[r].content \in ServiceResults
                      \/ requests'[r].status_code = 500
                         /\ requests'[r].content \in ServiceErrors
                   /\ servicePending' = servicePending \ PendingOf(servicePending, r)
                   /\ rate_limit_storage' = rate_limit_storage
          /\ (requests[r].pc = "awaiting" /\ requests'[r].pc = "awaiting")
                => PendingOf(servicePending', r) = PendingOf(servicePending, r)]_vars

\* An order is with the service with all six arguments while the other
\* request has ended with the exception the service raised.
C13_Witness ==
    \E r1, r2 \in RequestIds :
        /\ requests[r1].pc = "awaiting"
        /\ requests[r1].tool = "market_open_position"
        /\ [req |-> r1, op |-> "market_open_position",
            args |-> <<"BTC", "buy", 100, None, FALSE, 5>>] \in servicePending
        /\ requests[r2].pc = "done"
        /\ requests[r2].content \in ServiceErrors
        /\ PendingOf(servicePending, r2) = {}

----------------------------------------------------------------------------
(* C15: with enforcement on, a call of check_rate_limit at time now leaves  *)
(* no timestamp at or before now - RATE_LIMIT_WINDOW in the log of its      *)
(* identity and drops no later one; with RATE_LIMIT >= 1 timestamps logged, *)
(* the call is admitted when now is RATE_LIMIT_WINDOW or more after the     *)
(* earliest of them, the earliest being gone from the log, and is rejected  *)
(* when now is any earlier.                                                 *)
C15_PruneBoundary ==
    [][REQUIRE_AUTH =>
         \A client_id \in ClientIds :
             IsCallOf(client_id) =>
                 LET log == Log(rate_limit_storage, client_id)
                     log2 == Log(rate_limit_storage', client_id)
                     ok == trace'[Len(trace')].ok
                     Old(x) == x <= now - RATE_LIMIT_WINDOW
                 IN  /\ \A i \in 1..Len(log2) : ~Old(log2[i])
                     /\ \A i \in 1..Len(log) :
                            ~Old(log[i]) => \E j \in 1..Len(log2) : log2[j] = log[i]
                     /\ (RATE_LIMIT >= 1 /\ Len(log) = RATE_LIMIT) =>
                            /\ now >= log[1] + RATE_LIMIT_WINDOW
                                  => /\ ok
                                     /\ \A j \in 1..Len(log2) : log2[j] # log[1]
                            /\ now < log[1] + RATE_LIMIT_WINDOW => ~ok]_vars

\* With the quota logged, a call one second short of the window after the
\* earliest timestamp was rejected and the call exactly one window after it
\* was admitted.
C15_Witness ==
    /\ REQUIRE_AUTH
    /\ RATE_LIMIT >= 1
    /\ \E client_id \in ClientIds :
         LET calls == CallsOf(client_id)
             n == Len(calls)
         IN  /\ n = RATE_LIMIT + 2
             /\ \A i \in 1..RATE_LIMIT : calls[i].ok
             /\ calls[n - 1].t = calls[1].t + RATE_LIMIT_WINDOW - 1
             /\ ~calls[n - 1].ok
             /\ calls[n].t = calls[1].t + RATE_LIMIT_WINDOW
             /\ calls[n].ok

----------------------------------------------------------------------------
(* C16: rate_limit_storage never holds a key other than "default"; with     *)
(* enforcement on, a tool step of any request and any tool is rejected when *)
(* RATE_LIMIT invocations, of whatever tools and callers, have been         *)
(* admitted in the last RATE_LIMIT_WINDOW seconds, and is admitted          *)
(* otherwise, its timestamp joining the one log of "default".               *)
C16_OneSharedLog ==
    /\ [](DOMAIN rate_limit_storage \subseteq {"default"})
    /\ [][REQUIRE_AUTH =>
            \A r \in RequestIds :
                IsToolStep(r) =>
                    IF Len(admissions) >= RATE_LIMIT
                    THEN /\ requests'[r].rate_ok = <<FALSE>>
                         /\ requests'[r].content = RateLimitExceeded
                    ELSE /\ requests'[r].rate_ok = <<TRUE>>
                         /\ requests'[r].tool \in Tools
                         /\ Log(rate_limit_storage', "default")
                               = Append(StillInWindow(Log(rate_limit_storage, "default"), now),
                                        now)]_vars

\* Two invocations admitted in the window fill the one log; one of them is
\* still with the service and the other caller's next tool was turned away.
C16_Witness ==
    /\ REQUIRE_AUTH /\ RATE_LIMIT = 2
    /\ DOMAIN rate_limit_storage = {"default"}
    /\ Len(admissions) = 2
    /\ Log(rate_limit_storage, "default") = admissions
    /\ \E r1, r2 \in RequestIds :
         /\ r1 # r2
         /\ requests[r1].pc = "awaiting"
         /\ requests[r2].rate_ok = <<FALSE>>
         /\ requests[r2].content = RateLimitExceeded

----------------------------------------------------------------------------
(* C17: with enforcement on, however the tool invocations in flight are     *)
(* interleaved (each suspends only at its awaited service call), the        *)
(* invocations admitted in the last RATE_LIMIT_WINDOW seconds never number  *)
(* more than RATE_LIMIT, and the log never holds more than RATE_LIMIT       *)
(* timestamps.                                                              *)
C17_NoOvershoot ==
    REQUIRE_AUTH =>
        /\ Len(admissions) <= RATE_LIMIT
        /\ Len(Log(rate_limit_storage, "default")) <= RATE_LIMIT

\* Two invocations admitted at the same instant are both suspended at the
\* service call, and between them they have used the whole quota.
C17_Witness ==
    /\ REQUIRE_AUTH /\ RATE_LIMIT = 2
    /\ \A r \in RequestIds : requests[r].pc = "awaiting"
    /\ Cardinality(servicePending) = 2
    /\ admissions = <<now, now>>
    /\ Log(rate_limit_storage, "default") = <<now, now>>

----------------------------------------------------------------------------
\* Sequence p is the beginning of sequence q.
IsPrefix(p, q) == Len(p) <= Len(q) /\ SubSeq(q, 1, Len(p)) = p

(* C19: with enforcement on, the step that issues the service call of an    *)
(* admitted tool invocation has its timestamp in the log; no step, and in   *)
(* particular neither the failure nor the return of a service call, takes   *)
(* out of the log a timestamp younger than RATE_LIMIT_WINDOW; so whatever   *)
(* became of their service calls, the admissions of the last                *)
(* RATE_LIMIT_WINDOW seconds are the timestamps of that age in the log.     *)
C19_SlotHeldForWindow ==
    /\ [](REQUIRE_AUTH =>
             StillInWindow(Log(rate_limit_storage, "default"), now) = admissions)
    /\ [][REQUIRE_AUTH =>
            LET log == Log(rate_limit_storage, "default")
                log2 == Log(rate_limit_storage', "default")
            IN  /\ IsPrefix(StillInWindow(log, now'), StillInWindow(log2, now'))
                /\ \A r \in RequestIds :
                      /\ (requests[r].pc = "awaiting" /\ requests'[r].pc # "awaiting")
                            => rate_limit_storage' = rate_limit_storage
                      /\ PendingOf(servicePending', r) # PendingOf(servicePending, r)
                         /\ PendingOf(servicePending', r) # {}
                            => /\ log2 # <<>>
                               /\ log2[Len(log2)] = now
                               /\ Len(log2) = Len(StillInWindow(log, now)) + 1]_vars

\* One admitted invocation failed at the service and the other is still
\* pending there, and the log holds the timestamps of both.
C19_Witness ==
    /\ REQUIRE_AUTH /\ RATE_LIMIT = 2
    /\ Len(StillInWindow(Log(rate_limit_storage, "default"), now)) = 2
    /\ \E r1, r2 \in RequestIds :
         /\ requests[r1].pc = "done"
         /\ requests[r1].status_code = 500
         /\ requests[r1].content \in ServiceErrors
         /\ requests[r2].pc = "awaiting"
         /\ PendingOf(servicePending, r2) # {}

----------------------------------------------------------------------------
\* The step is a retry of client_id that shows in the remembered calls.
IsRetryOf(client_id) ==
    /\ trace' # trace
    /\ trace'[Len(trace')].id = client_id

\* client_id is locked out, and instant d is RATE_LIMIT_WINDOW after the
\* earliest timestamp of its log.
LockedOutUntil(client_id, d) ==
    LET log == Log(rate_limit_storage, client_id) IN
    /\ REQUIRE_AUTH /\ RATE_LIMIT >= 1
    /\ log # <<>>
    /\ ~check_rate_limit(rate_limit_storage, client_id, now)
    /\ d = log[1] + RATE_LIMIT_WINDOW

\* A call of client_id has been admitted at instant d or later.
AdmittedFrom(client_id, d) ==
    LET log == Log(rate_limit_storage, client_id) IN
    \E i \in 1..Len(log) : log[i] >= d

(* C18: with enforcement on and RATE_LIMIT >= 1, an attempt made            *)
(* RATE_LIMIT_WINDOW seconds or more after the earliest logged timestamp of *)
(* its identity is admitted, whatever attempts were rejected before it; so  *)
(* when the clock keeps advancing and the client keeps retrying, a          *)
(* locked-out client is eventually admitted; and with RATE_LIMIT <= 0 no    *)
(* attempt is ever admitted.                                                *)
C18_LockoutEnds ==
    /\ [][(REQUIRE_AUTH /\ RATE_LIMIT >= 1) =>
            \A client_id \in ClientIds :
                IsRetryOf(client_id) =>
                    LET log == Log(rate_limit_storage, client_id) IN
                    (log = <<>> \/ now >= log[1] + RATE_LIMIT_WINDOW)
                        => trace'[Len(trace')].ok]_vars
    /\ []((REQUIRE_AUTH /\ RATE_LIMIT <= 0) =>
             \A i \in 1..Len(trace) : ~trace[i].ok)
    /\ \A d \in Instants :
           LockedOutUntil("default", d) ~> AdmittedFrom("default", d)

\* Two attempts at different instants were rejected, and the next one, made
\* exactly RATE_LIMIT_WINDOW after the admission that caused the lockout,
\* was admitted.
C18_Witness ==
    /\ REQUIRE_AUTH /\ RATE_LIMIT = 1
    /\ Len(trace) >= 3
    /\ LET n == Len(trace) IN
       /\ \A i \in n - 2..n : trace[i].id = "default"
       /\ ~trace[n - 2].ok /\ ~trace[n - 1].ok /\ trace[n].ok
       /\ trace[n - 2].t < trace[n - 1].t
       /\ trace[n - 1].t = now - 1
       /\ trace[n].t = now
       /\ Log(rate_limit_storage, "default") = <<now>>

====
